---- MODULE Spec2Model ----
(***************************************************************************)
(* CampusFlow: the row-level-security record store (schema and policies   *)
(* of the SQL migration) and the notification centre that reads it.       *)
(*                                                                         *)
(*   Spec       the record store: one collection under its policies,      *)
(*              written and listed by any identity.                        *)
(*   SpecNotif  the NotificationCenter component against the              *)
(*              notifications table and its realtime INSERT feed, driven  *)
(*              by what its rendered controls allow.                       *)
(*   SpecNotifApi  the same, with markAsRead called on any id.            *)
(*   SpecSched  the ScheduleViewer merging schedules and timetable.        *)
(*   SpecDash   the Dashboard's updates feed.                              *)
(*   SpecEnum   status and type columns under the CHECK constraints.       *)
(*   SpecTime   created_at / updated_at under defaults and triggers.       *)
(*   SpecAcct   registration, owned rows and account deletion.             *)
(*   SpecOwner  the record store under writes that name the owner column.  *)
(*   SpecEdit   ScheduleViewer.tsx on two devices editing one row.         *)
(*   SpecAdd    ScheduleViewer.tsx adding and deleting rows.               *)
(*   SpecFeedback  the FeedbackSystem form and its submit.                 *)
(*   SpecPush   the PushNotificationToggle around the hook's calls.        *)
(***************************************************************************)
EXTENDS Integers, Sequences, FiniteSets, TLC

VARIABLES
    profiles,      \* public.profiles: identity -> [role, department]
    tbl,           \* the collection this behaviour exercises
    store,         \* rows of tbl: records [id, owner, class, val]; each of SpecEnum,
                   \* SpecTime and SpecAcct states the row shape it stores
    nextId,        \* next primary key of tbl
    lastOp,        \* the last store request and the reply the caller got
    user,          \* NotificationCenter: the signed-in identity (auth.getUser)
    notifTable,    \* public.notifications: records [id, owner, read, created_at]
    mounted,       \* NotificationCenter is mounted
    chan,          \* realtime channel: "none" | "joining" | "joined"
    events,        \* INSERT payloads in flight to the channel callback
    notifications, \* useState<Notification[]>: the local list, newest first
    isLoading,     \* useState(true)
    fetchPc,       \* fetchNotifications: "idle" | "started" | "replied"
    fetchReply,    \* the reply of the fetch query while it is in flight
    markReq,       \* markAsRead / markAllAsRead awaiting the store, with its reply
    toast,         \* the toast() the notification centre's last handler step showed
    feed,          \* history: per inserted id, subscription state and events sent
    schedRows,     \* public.schedules: records [id, owner, day_of_week, time]
    ttRows,        \* public.timetable: records [id, owner, class, day_of_week,
                   \*                            start_time, end_time]
    schedules,     \* ScheduleViewer useState<Schedule[]>
    timetable,     \* ScheduleViewer useState<Timetable[]>
    selectedDay,   \* ScheduleViewer useState("monday")
    viewMode,      \* ScheduleViewer useState("all")
    svPc,          \* fetchUserData: "unmounted" | "profile" | "fetching" | "done"
    svDept,        \* profileData?.department held by fetchUserData
    svPending,     \* fetches in flight: subset of {"schedules", "timetable"}
    updRows,       \* public.updates: records [id, owner, target_class, created_at]
    updates,       \* Dashboard useState<Update[]>
    dashPc,        \* fetchData: "idle" | "profile" | "fetching" | "done" | "error"
    dashDept,      \* profileData.department held by fetchData
    now,           \* the store's clock (NOW())
    accounts,      \* auth.users: records [id, meta_role]
    profileRows,   \* public.profiles as rows: records [id, role]
    schedTable,    \* public.schedules with its six editable columns
    edWrites,      \* statements the store has executed on schedTable
    devUser,       \* per device: useAuth().user of ScheduleViewer.tsx (NULL: none)
    devSchedules,  \* per device: useState<Schedule[]>
    devIsLoading,  \* per device: useState(true)
    editSchedule,  \* per device: useState<Schedule | null>
    devPc,         \* per device: the handler awaiting the store, or "idle"
    devReply,      \* per device: the error of the awaited reply
    devToast,      \* per device: the last toast() shown
    fbTable,       \* public.feedback: records [id, owner, feedback_type, subject,
                   \*   description, priority, rating, status, created_at]
    fbUser,        \* FeedbackSystem: useAuth().user (NULL: none)
    newFeedback,   \* FeedbackSystem: useState of the form
    feedback,      \* FeedbackSystem: useState<Feedback[]>
    fbIsLoading,   \* FeedbackSystem: useState(true)
    fbPc,          \* FeedbackSystem: the handler awaiting the store, or "idle"
    fbReply,       \* FeedbackSystem: the error of the awaited reply
    fbToast,       \* FeedbackSystem: the last toast() shown
    isProcessing,  \* PushNotificationToggle: useState(false)
    isSubscribed,  \* usePushNotifications().isSubscribed as the hook reports it
    pushCalls,     \* the subscribe / unsubscribe calls handleToggle started:
                   \*   records [kind, status], in the order they started
    ignoredClicks  \* handleToggle invocations that returned at the guard

schedVars == <<schedRows, ttRows, schedules, timetable, selectedDay, viewMode,
               svPc, svDept, svPending>>

dashVars == <<updRows, updates, dashPc, dashDept>>

editVars == <<schedTable, edWrites, devUser, devSchedules, devIsLoading, editSchedule,
              devPc, devReply, devToast>>

pushVars == <<isProcessing, isSubscribed, pushCalls, ignoredClicks>>

fbVars == <<fbTable, fbUser, newFeedback, feedback, fbIsLoading, fbPc, fbReply, fbToast>>

vars == <<profiles, tbl, store, nextId, lastOp, user, notifTable, mounted, chan,
          events, notifications, isLoading, fetchPc, fetchReply, markReq, toast,
          feed, schedVars, dashVars, now, accounts, profileRows, editVars, fbVars, pushVars>>

storeVars == <<profiles, tbl, store, nextId, lastOp>>

notifVars == <<user, notifTable, mounted, chan, events, notifications, isLoading,
               fetchPc, fetchReply, markReq, toast, feed>>

\* What the record store's actions, and the notification centre's, leave alone.
acctVars == <<accounts, profileRows>>

nonStoreVars == <<notifVars, schedVars, dashVars, now, acctVars, editVars, fbVars, pushVars>>
nonNotifVars == <<storeVars, schedVars, dashVars, now, acctVars, editVars, fbVars, pushVars>>
nonSchedVars == <<storeVars, notifVars, dashVars, now, acctVars, editVars, fbVars, pushVars>>
nonDashVars == <<storeVars, notifVars, schedVars, now, acctVars, editVars, fbVars, pushVars>>
clientVars == <<notifVars, schedVars, dashVars, acctVars, editVars, fbVars, pushVars>>

---------------------------------------------------------------------------
(* Bounds *)

MaxRows == 2

MaxNotifs == 2

---------------------------------------------------------------------------
(* Schema *)

NULL == "null"

Users == {"u1", "u2"}

Classes == {"CS-Y2", "EE-Y1"}

Vals == {"a", "b"}

PersonalTables ==
    {"schedules", "appointments", "feedback", "push_subscriptions", "notifications"}

LecturerTables ==
    {"students", "timetable", "assignments", "consultations", "reports",
     "study_materials", "updates"}

Tables == PersonalTables \cup LecturerTables

\* The values the class / target_class column of a table can hold
\* (NULL where the table has no such column).
ClassValues(t) ==
    IF t \in {"students", "timetable", "assignments", "study_materials"}
    THEN Classes
    ELSE IF t = "updates" THEN Classes \cup {NULL, "all"}
    ELSE {NULL}

---------------------------------------------------------------------------
(* Row-level policies.  r.owner is the user_id column of a personal table *)
(* and the lecturer_id column of a lecturer table.                        *)

\* A SELECT policy that lets every caller see every row.
SelectPolicyOpen(t, uid, r) == TRUE

\* FOR SELECT USING (auth.uid() = user_id); FOR ALL USING (auth.uid() = lecturer_id)
SelectPolicy(t, uid, r) ==
    IF t \in PersonalTables THEN uid = r.owner ELSE uid = r.owner

\* FOR INSERT WITH CHECK (auth.uid() = user_id); FOR ALL: USING is the check
InsertCheck(t, uid, r) ==
    IF t \in PersonalTables THEN uid = r.owner ELSE uid = r.owner

\* FOR UPDATE USING (auth.uid() = user_id); FOR ALL USING (auth.uid() = lecturer_id)
UpdatePolicy(t, uid, r) ==
    IF t \in PersonalTables THEN uid = r.owner ELSE uid = r.owner

\* FOR DELETE USING (auth.uid() = user_id); FOR ALL USING (auth.uid() = lecturer_id)
DeletePolicy(t, uid, r) ==
    IF t \in PersonalTables THEN uid = r.owner ELSE uid = r.owner

---------------------------------------------------------------------------
(* Store requests as the database executes them under the policies.       *)

\* select('*'): the rows the SELECT policy lets the caller see
SelectRows(t, uid, rows) == {r \in rows : SelectPolicy(t, uid, r)}

\* update(...).eq('id', id): the rows the statement touches.  A row the
\* policies hide is no target; the statement then updates zero rows.
UpdateTargets(t, uid, rows, id) ==
    {r \in rows : r.id = id /\ SelectPolicy(t, uid, r) /\ UpdatePolicy(t, uid, r)}

\* delete().eq('id', id)
DeleteTargets(t, uid, rows, id) ==
    {r \in rows : r.id = id /\ SelectPolicy(t, uid, r) /\ DeletePolicy(t, uid, r)}

\* The error of an update or delete reply: zero matching rows is no error.
WriteError(targets) == NULL

\* No fetch reply in flight; no mark-read request awaiting the store.
NoReply == [error |-> NULL, data |-> <<>>]

NoMark == [kind |-> "none", id |-> 0, error |-> NULL, owned |-> FALSE, wasRead |-> FALSE,
           storeChanged |-> FALSE]

\* No toast() call: the handler wrote to the console at most.
NoToast == "none"

NoOp == [op |-> "none", caller |-> NULL, id |-> 0, rows |-> {}, error |-> NULL,
         before |-> {}]

---------------------------------------------------------------------------
(* Record store actions *)

\* insert(row) by caller: rejected when the WITH CHECK policy fails
Create(caller, owner, class, val) ==
    /\ nextId <= MaxRows
    /\ LET r == [id |-> nextId, owner |-> owner, class |-> class, val |-> val]
       IN IF InsertCheck(tbl, caller, r)
          THEN /\ store' = store \cup {r}
               /\ nextId' = nextId + 1
               /\ lastOp' = [NoOp EXCEPT !.op = "insert", !.caller = caller,
                                         !.id = r.id, !.rows = {r}]
          ELSE /\ UNCHANGED <<store, nextId>>
               /\ lastOp' = [NoOp EXCEPT !.op = "insert", !.caller = caller,
                                         !.id = r.id, !.error = "rls_violation"]
    /\ UNCHANGED <<profiles, tbl>>
    /\ UNCHANGED nonStoreVars

\* from(tbl).select('*') by caller
ListRows(caller) ==
    /\ lastOp' = [NoOp EXCEPT !.op = "list", !.caller = caller,
                              !.rows = SelectRows(tbl, caller, store)]
    /\ UNCHANGED <<profiles, tbl, store, nextId>>
    /\ UNCHANGED nonStoreVars

\* from(tbl).update({...}).eq('id', id) by caller
UpdateRow(caller, id, val) ==
    /\ LET targets == UpdateTargets(tbl, caller, store, id)
       IN /\ store' = (store \ targets) \cup {[r EXCEPT !.val = val] : r \in targets}
          /\ lastOp' = [NoOp EXCEPT !.op = "update", !.caller = caller, !.id = id,
                                    !.rows = targets, !.error = WriteError(targets),
                                    !.before = {r \in store : r.id = id}]
    /\ UNCHANGED <<profiles, tbl, nextId>>
    /\ UNCHANGED nonStoreVars

\* from(tbl).delete().eq('id', id) by caller
DeleteRow(caller, id) ==
    /\ LET targets == DeleteTargets(tbl, caller, store, id)
       IN /\ store' = store \ targets
          /\ lastOp' = [NoOp EXCEPT !.op = "delete", !.caller = caller, !.id = id,
                                    !.rows = targets, !.error = WriteError(targets),
                                    !.before = {r \in store : r.id = id}]
    /\ UNCHANGED <<profiles, tbl, nextId>>
    /\ UNCHANGED nonStoreVars

\* profiles as handle_new_user leaves them (role defaults to 'student'),
\* the department set or left NULL
InitProfiles ==
    {p \in [Users -> [role : {"student", "lecturer"}, department : {"CS-Y2", NULL}]] :
        p["u1"].role = "student" /\ p["u2"].role = "lecturer"}

InitNotif ==
    /\ user = "u1"
    /\ notifTable = {}
    /\ mounted = FALSE
    /\ chan = "none"
    /\ events = <<>>
    /\ notifications = <<>>
    /\ isLoading = TRUE
    /\ fetchPc = "idle"
    /\ fetchReply = NoReply
    /\ markReq = NoMark
    /\ toast = NoToast
    /\ feed = <<>>

\* ScheduleViewer before it is mounted, and empty schedule tables.
InitSched ==
    /\ schedRows = {}
    /\ ttRows = {}
    /\ schedules = <<>>
    /\ timetable = <<>>
    /\ selectedDay = "monday"
    /\ viewMode = "all"
    /\ svPc = "unmounted"
    /\ svDept = NULL
    /\ svPending = {}

\* The clock at 0 and no account registered through the registration trigger.
InitClockAcct ==
    /\ now = 0
    /\ accounts = {}
    /\ profileRows = {}

\* The two devices on which the owner has ScheduleViewer.tsx open.
Devices == {"d1", "d2"}

\* useState<Schedule | null>(null)
NoSchedule ==
    [id |-> 0, owner |-> NULL, course |-> "", time |-> <<>>, location |-> "",
     instructor |-> "", type |-> "", day_of_week |-> ""]

\* A schedule row the owner added earlier.
FirstSchedule ==
    [id |-> 1, owner |-> "u1", course |-> "a", time |-> <<"8">>, location |-> "a",
     instructor |-> "a", type |-> "Lecture", day_of_week |-> "monday"]

\* ScheduleViewer.tsx as it is constructed on each device for the signed-in
\* owner: isLoading true, no rows yet, and the effect has called
\* fetchSchedules.
InitEdit ==
    /\ schedTable = {FirstSchedule}
    /\ edWrites = 1
    /\ devUser = [d \in Devices |-> "u1"]
    /\ devSchedules = [d \in Devices |-> <<>>]
    /\ devIsLoading = [d \in Devices |-> TRUE]
    /\ editSchedule = [d \in Devices |-> NoSchedule]
    /\ devPc = [d \in Devices |-> "fetch"]
    /\ devReply = [d \in Devices |-> NULL]
    /\ devToast = [d \in Devices |-> NoToast]

\* useState({ feedback_type: "", subject: "", description: "",
\*            priority: "medium", rating: 0 })
newFeedbackBlank ==
    [feedback_type |-> "", subject |-> "", description |-> "", priority |-> "medium",
     rating |-> 0]

\* FeedbackSystem as it is constructed for the signed-in owner: isLoading
\* true, no rows yet, and the effect has called fetchFeedback.
InitFeedback ==
    /\ fbTable = {}
    /\ fbUser = "u1"
    /\ newFeedback = newFeedbackBlank
    /\ feedback = <<>>
    /\ fbIsLoading = TRUE
    /\ fbPc = "fetch"
    /\ fbReply = NULL
    /\ fbToast = NoToast

\* PushNotificationToggle once the hook has loaded: nothing in flight, the
\* browser not subscribed yet.
InitPush ==
    /\ isProcessing = FALSE
    /\ isSubscribed = FALSE
    /\ pushCalls = <<>>
    /\ ignoredClicks = 0

\* Dashboard before it is mounted, and an empty updates table.
InitDash ==
    /\ updRows = {}
    /\ updates = <<>>
    /\ dashPc = "idle"
    /\ dashDept = NULL

Init ==
    /\ profiles \in InitProfiles
    /\ tbl \in Tables
    /\ store = {}
    /\ nextId = 1
    /\ lastOp = NoOp
    /\ InitNotif
    /\ InitSched
    /\ InitDash /\ InitClockAcct /\ InitEdit /\ InitFeedback /\ InitPush

Next ==
    \/ \E caller \in Users, owner \in Users, class \in ClassValues(tbl), val \in Vals :
          Create(caller, owner, class, val)
    \/ \E caller \in Users : ListRows(caller)
    \/ \E caller \in Users, id \in 1..MaxRows, val \in Vals : UpdateRow(caller, id, val)
    \/ \E caller \in Users, id \in 1..MaxRows : DeleteRow(caller, id)

Spec == Init /\ [][Next]_vars

---------------------------------------------------------------------------
(* Notification centre: pure parts *)

FetchLimit == 20

\* A store request can fail for reasons of its own (network, store down).
Faults == {NULL, "store_error"}

\* .order('created_at', { ascending: false }): the rows as a sequence, newest first
RECURSIVE NewestFirst(_)
NewestFirst(rows) ==
    IF rows = {} THEN <<>>
    ELSE LET top == CHOOSE r \in rows : \A q \in rows : q.created_at <= r.created_at
         IN <<top>> \o NewestFirst(rows \ {top})

\* .limit(n)
Limit(seq, n) == IF Len(seq) <= n THEN seq ELSE SubSeq(seq, 1, n)

\* select('*').eq('user_id', user.id).order('created_at', desc).limit(20), as
\* the store answers it to caller uid
FetchRows(uid, rows) ==
    Limit(NewestFirst({r \in SelectRows("notifications", uid, rows) : r.owner = uid}),
          FetchLimit)

\* A mark-read that clears the flag of a row already read.
MarkReadToggle(r) == [r EXCEPT !.read = ~r.read]

\* update({ read: true })
MarkRead(r) == [r EXCEPT !.read = TRUE]

\* update({ read: true }).in('id', ids) by caller uid: the table afterwards
StoreMarkRead(uid, rows, ids) ==
    LET targets == UNION {UpdateTargets("notifications", uid, rows, id) : id \in ids}
    IN (rows \ targets) \cup {MarkRead(r) : r \in targets}

\* prev.map(n => n.id === notificationId ? { ...n, read: true } : n)
LocalMarkRead(list, id) ==
    [i \in DOMAIN list |-> IF list[i].id = id THEN MarkRead(list[i]) ELSE list[i]]

\* prev.map(n => ({ ...n, read: true }))
LocalMarkAllRead(list) == [i \in DOMAIN list |-> MarkRead(list[i])]

\* notifications.filter(n => !n.read).map(n => n.id)
UnreadIds(list) == {list[i].id : i \in {j \in DOMAIN list : ~list[j].read}}

\* const unreadCount = notifications.filter(n => !n.read).length
unreadCount == Cardinality({i \in DOMAIN notifications : ~notifications[i].read})

\* The number of uid's rows with read = false in the store.
StoreUnread(uid) == Cardinality({r \in notifTable : r.owner = uid /\ ~r.read})

\* The cleanup keeps the channel: what a missing removeChannel would leave.
removeChannelMissing(c) == c

\* supabase.removeChannel(channel)
removeChannel(c) == "none"

\* Realtime hands an INSERT to a joined subscriber only when the SELECT
\* policy lets that subscriber see the row.
Broadcast(c, uid, r) == c = "joined" /\ SelectPolicy("notifications", uid, r)

---------------------------------------------------------------------------
(* Notification centre: actions *)

\* A notification row is inserted for owner (read defaults to false).
InsertNotification(owner) ==
    /\ Cardinality(notifTable) < MaxNotifs
    /\ LET id == Cardinality(notifTable) + 1
           r == [id |-> id, owner |-> owner, read |-> FALSE, created_at |-> id]
       IN /\ InsertCheck("notifications", owner, r)
          /\ notifTable' = notifTable \cup {r}
          /\ events' = IF Broadcast(chan, user, r) THEN Append(events, r) ELSE events
          /\ feed' = Append(feed, [chan |-> chan,
                                   sent |-> IF Broadcast(chan, user, r) THEN 1 ELSE 0])
    /\ UNCHANGED <<user, mounted, chan, notifications, isLoading, fetchPc, fetchReply,
                   markReq>>
    /\ UNCHANGED toast
    /\ UNCHANGED nonNotifVars

\* useEffect at mount: fetchNotifications() starts, the channel subscribes.
Mount ==
    /\ ~mounted
    /\ mounted' = TRUE
    /\ notifications' = <<>>
    /\ isLoading' = TRUE
    /\ fetchPc' = "started"
    /\ fetchReply' = NoReply
    /\ chan' = "joining"
    /\ events' = <<>>
    /\ markReq' = NoMark
    /\ UNCHANGED <<user, notifTable, feed>>
    /\ toast' = NoToast
    /\ UNCHANGED nonNotifVars

\* The channel's subscription is acknowledged.
Join ==
    /\ chan = "joining"
    /\ chan' = "joined"
    /\ UNCHANGED <<user, notifTable, mounted, events, notifications, isLoading, fetchPc,
                   fetchReply, markReq, feed>>
    /\ UNCHANGED toast
    /\ UNCHANGED nonNotifVars

\* The INSERT callback: setNotifications(prev => [payload.new, ...prev])
DeliverEvent ==
    /\ chan = "joined"
    /\ events # <<>>
    /\ notifications' = <<Head(events)>> \o notifications
    /\ events' = Tail(events)
    /\ UNCHANGED <<user, notifTable, mounted, chan, isLoading, fetchPc, fetchReply,
                   markReq, feed>>
    /\ UNCHANGED toast
    /\ UNCHANGED nonNotifVars

\* fetchNotifications up to the store's answer to its query.
FetchQuery(fault) ==
    /\ fetchPc = "started"
    /\ fetchPc' = "replied"
    /\ fetchReply' = IF fault # NULL
                     THEN [error |-> fault, data |-> <<>>]
                     ELSE [error |-> NULL, data |-> FetchRows(user, notifTable)]
    /\ UNCHANGED <<user, notifTable, mounted, chan, events, notifications, isLoading,
                   markReq, feed>>
    /\ UNCHANGED toast
    /\ UNCHANGED nonNotifVars

\* fetchNotifications from the answer on: error -> return; else
\* setNotifications(data); finally setIsLoading(false)
FetchDone ==
    /\ fetchPc = "replied"
    /\ notifications' = IF fetchReply.error # NULL THEN notifications ELSE fetchReply.data
    /\ isLoading' = FALSE
    /\ fetchPc' = "idle"
    /\ fetchReply' = NoReply
    /\ UNCHANGED <<user, notifTable, mounted, chan, events, markReq, feed>>
    /\ toast' = NoToast
    /\ UNCHANGED nonNotifVars

\* markAsRead(notificationId) up to the store's answer to the update.
MarkAsRead(id, fault) ==
    /\ mounted
    /\ markReq = NoMark
    /\ LET targets == UpdateTargets("notifications", user, notifTable, id)
       IN /\ notifTable' = IF fault # NULL THEN notifTable
                           ELSE StoreMarkRead(user, notifTable, {id})
          /\ markReq' = [kind |-> "one", id |-> id,
                         error |-> IF fault # NULL THEN fault ELSE WriteError(targets),
                         owned |-> targets # {},
                         storeChanged |-> notifTable' # notifTable,
                         wasRead |-> /\ targets # {}
                                     /\ \A r \in targets : r.read
                                     /\ \A i \in DOMAIN notifications :
                                           notifications[i].id = id => notifications[i].read]
    /\ UNCHANGED <<user, mounted, chan, events, notifications, isLoading, fetchPc,
                   fetchReply, feed>>
    /\ UNCHANGED toast
    /\ UNCHANGED nonNotifVars

\* onClick={() => !notification.read && markAsRead(notification.id)} on the
\* i-th row of the rendered list
ClickNotification(i, fault) ==
    /\ ~isLoading
    /\ i \in DOMAIN notifications
    /\ ~notifications[i].read
    /\ MarkAsRead(notifications[i].id, fault)

\* markAsRead from the answer on: throw into the catch, or update the list
MarkAsReadDone ==
    /\ markReq.kind = "one"
    /\ notifications' = IF markReq.error # NULL THEN notifications
                        ELSE LocalMarkRead(notifications, markReq.id)
    /\ markReq' = NoMark
    /\ UNCHANGED <<user, notifTable, mounted, chan, events, isLoading, fetchPc,
                   fetchReply, feed>>
    /\ toast' = NoToast
    /\ UNCHANGED nonNotifVars

\* markAllAsRead (the button shows while unreadCount > 0) up to the store's
\* answer to the update of the unread ids of the local list
MarkAllAsRead(fault) ==
    /\ mounted
    /\ markReq = NoMark
    /\ unreadCount > 0
    /\ LET unreadIds == UnreadIds(notifications)
       IN /\ unreadIds # {}
          /\ notifTable' = IF fault # NULL THEN notifTable
                           ELSE StoreMarkRead(user, notifTable, unreadIds)
          /\ markReq' = [kind |-> "all", id |-> 0,
                         error |-> IF fault # NULL THEN fault ELSE WriteError(unreadIds),
                         owned |-> TRUE, wasRead |-> FALSE,
                         storeChanged |-> notifTable' # notifTable]
    /\ UNCHANGED <<user, mounted, chan, events, notifications, isLoading, fetchPc,
                   fetchReply, feed>>
    /\ UNCHANGED toast
    /\ UNCHANGED nonNotifVars

\* markAllAsRead from the answer on
MarkAllAsReadDone ==
    /\ markReq.kind = "all"
    /\ notifications' = IF markReq.error # NULL THEN notifications
                        ELSE LocalMarkAllRead(notifications)
    /\ markReq' = NoMark
    /\ UNCHANGED <<user, notifTable, mounted, chan, events, isLoading, fetchPc,
                   fetchReply, feed>>
    /\ toast' = IF markReq.error # NULL THEN "Error" ELSE "Success"
    /\ UNCHANGED nonNotifVars

\* The effect's cleanup, supabase.removeChannel(channel): the component is
\* gone, so what its pending requests would set no longer shows.  Running
\* it again finds nothing left to remove.
Unmount ==
    /\ mounted' = FALSE
    /\ chan' = removeChannel(chan)
    /\ events' = IF removeChannel(chan) = "none" THEN <<>> ELSE events
    /\ fetchPc' = "idle"
    /\ fetchReply' = NoReply
    /\ markReq' = NoMark
    /\ UNCHANGED <<user, notifTable, notifications, isLoading, feed>>
    /\ toast' = NoToast
    /\ UNCHANGED nonNotifVars

InitStoreIdle ==
    /\ profiles = [u \in Users |-> [role |-> "student", department |-> NULL]]
    /\ tbl = "notifications"
    /\ store = {}
    /\ nextId = 1
    /\ lastOp = NoOp

InitNotifSpec == InitStoreIdle /\ InitNotif /\ InitSched /\ InitDash /\ InitClockAcct /\ InitEdit /\ InitFeedback /\ InitPush

\* What the rendered component and its environment can do.
NextNotif ==
    \/ \E owner \in Users : InsertNotification(owner)
    \/ Mount
    \/ Join
    \/ DeliverEvent
    \/ \E fault \in Faults : FetchQuery(fault)
    \/ FetchDone
    \/ \E i \in 1..(2 * MaxNotifs), fault \in Faults : ClickNotification(i, fault)
    \/ MarkAsReadDone
    \/ \E fault \in Faults : MarkAllAsRead(fault)
    \/ MarkAllAsReadDone
    \/ Unmount

SpecNotif == InitNotifSpec /\ [][NextNotif]_vars

\* The same, with markAsRead called on any id, also one that is no row of
\* the caller's list.
NextNotifApi ==
    \/ NextNotif
    \/ \E id \in 1..(MaxNotifs + 1), fault \in Faults : MarkAsRead(id, fault)

SpecNotifApi == InitNotifSpec /\ [][NextNotifApi]_vars

---------------------------------------------------------------------------
(* Record store claims *)

ClassScopedTables == {"timetable", "assignments", "study_materials", "updates"}

\* authorize(read, collection, caller, row) as the specification states it:
\* the owner, and for a class-scoped lecturer collection any caller whose
\* profile department equals the row's class / target_class.
AuthorizeRead(t, c, r) ==
    \/ c = r.owner
    \/ /\ t \in ClassScopedTables
       /\ profiles[c].department # NULL
       /\ profiles[c].department = r.class

\* C1: access-control soundness: a list by caller c returns row r if and
\* only if authorize(read, collection, c, r) holds, where authorize also
\* grants a class-scoped row to callers of the row's class.
C1_ListIffAuthorized ==
    lastOp.op = "list" =>
        \A r \in store : (r \in lastOp.rows) <=> AuthorizeRead(tbl, lastOp.caller, r)

\* C2: personal-collection isolation: a list of a personal collection issued
\* by caller B never contains a row owned by a different identity A, with no
\* client-side filter on the request.
C2_PersonalIsolation ==
    (lastOp.op = "list" /\ tbl \in PersonalTables) =>
        \A r \in lastOp.rows : r.owner = lastOp.caller

\* C2 witness: B lists schedules while A owns a row there; B gets its own row.
C2_Witness ==
    /\ lastOp.op = "list"
    /\ tbl = "schedules"
    /\ lastOp.rows # {}
    /\ \E r \in store : r.owner # lastOp.caller

\* C3: an update or delete attempted by a caller who is not the row's owner
\* fails with an AuthorizationError reported to the caller, and the row is
\* left unchanged.
C3_NonOwnerWriteRejected ==
    ( /\ lastOp.op \in {"update", "delete"}
      /\ lastOp.before # {}
      /\ \A r \in lastOp.before : r.owner # lastOp.caller )
    => ( /\ lastOp.error = "AuthorizationError"
         /\ lastOp.before \subseteq store )

---------------------------------------------------------------------------
(* Notification centre claims *)

\* The store row of an id.
RowOf(id) == CHOOSE r \in notifTable : r.id = id

\* No request of the component is in flight and no event is on its way.
Quiescent ==
    /\ mounted
    /\ ~isLoading
    /\ fetchPc = "idle"
    /\ markReq = NoMark
    /\ events = <<>>
    /\ chan = "joined"

\* C4: a notification's read flag is monotonic: once it is true, in the
\* store or in the notification centre's list, it is never false in a later
\* state (Unread -> Read is the only transition).
C4_ReadMonotonic ==
    [][ /\ \A r \in notifTable : r.read =>
              \A q \in notifTable' : q.id = r.id => q.read
        /\ \A i \in DOMAIN notifications : notifications[i].read =>
              \A j \in DOMAIN notifications' :
                  notifications'[j].id = notifications[i].id => notifications'[j].read
      ]_vars

\* C5: markAllRead(owner) followed by unreadCount(owner) yields 0, where
\* unreadCount is the number of the owner's rows with read = false in the
\* store: the store has no unread row of the owner right after the update of
\* a markAllAsRead that the store answered without error.
C5_MarkAllThenZero ==
    [][ (markReq.kind = "none" /\ markReq'.kind = "all" /\ markReq'.error = NULL)
        => StoreUnread(user)' = 0 ]_vars

\* C6: the unread count the notification centre shows equals the number of
\* the owner's rows with read = false in the store; stated for the states
\* most favourable to the claim, with the fetch done and nothing in flight.
C6_UnreadCountIsStoreCount ==
    Quiescent => unreadCount = StoreUnread(user)

\* C7: markRead is idempotent: on every id the caller owns, a second markRead
\* leaves the store and the local list as the first left them, and a
\* markAsRead of an id that was already read is answered without error and
\* changes no row of the store.
C7_MarkReadIdempotent ==
    /\ \A id \in {r.id : r \in SelectRows("notifications", user, notifTable)} :
          LET s1 == StoreMarkRead(user, notifTable, {id})
              l1 == LocalMarkRead(notifications, id)
          IN /\ StoreMarkRead(user, s1, {id}) = s1
             /\ LocalMarkRead(l1, id) = l1
             /\ WriteError(UpdateTargets("notifications", user, s1, id)) = NULL
    /\ (markReq.kind = "one" /\ markReq.wasRead /\ markReq.error # "store_error")
          => (markReq.error = NULL /\ ~markReq.storeChanged)

\* C7 witness: the store has answered, without error, a markAsRead of a
\* notification of the caller that was already read in the store and the list.
C7_Witness ==
    /\ markReq.kind = "one"
    /\ markReq.wasRead
    /\ markReq.owned
    /\ markReq.error = NULL

\* C8: markRead on an id that belongs to a different owner, or is unknown,
\* fails with NotFoundError and leaves the read flag unchanged in the store
\* and in the caller's list.
C8_ForeignMarkReadNotFound ==
    (markReq.kind = "one" /\ ~markReq.owned /\ markReq.error # "store_error")
        => ( /\ markReq.error = "NotFoundError"
             /\ ~markReq.storeChanged
             /\ LocalMarkRead(notifications, markReq.id) = notifications )

C10_UnsubscribeStops ==
    [][ (~mounted /\ ~mounted') =>
          /\ UNCHANGED <<notifications, events, chan, isLoading, fetchPc, fetchReply,
                         markReq>>
          /\ \A id \in DOMAIN feed' : id \notin DOMAIN feed => feed'[id].sent = 0
      ]_vars

\* C10 witness: the caller was subscribed and got a notification, then
\* unsubscribed, and a notification of its own was inserted after that.
C10_Witness ==
    /\ ~mounted
    /\ Len(feed) >= 2
    /\ feed[1].sent = 1
    /\ \E i \in DOMAIN notifications : notifications[i].id = 1
    /\ feed[Len(feed)].chan = "none"
    /\ RowOf(Len(feed)).owner = user

\* A list is newest first: created_at never increases along it.
NewestFirstOrdered(list) ==
    \A i, j \in DOMAIN list : i < j => list[i].created_at >= list[j].created_at

\* C11: listRecent returns only the owner's notifications, at most the limit
\* of them, newest first by created_at; and the list the notification centre
\* holds keeps that newest-first order after live inserts are added to it.
C11_ListRecentNewestFirst ==
    /\ (fetchPc = "replied" /\ fetchReply.error = NULL) =>
          /\ \A i \in DOMAIN fetchReply.data : fetchReply.data[i].owner = user
          /\ Len(fetchReply.data) <= FetchLimit
          /\ NewestFirstOrdered(fetchReply.data)
    /\ NewestFirstOrdered(notifications)


---------------------------------------------------------------------------
(* Schedule Merge View: the ScheduleViewer that merges the caller's        *)
(* personal schedules with the timetable.                                  *)

MaxSchedRows == 2      \* rows in schedules and timetable together

\* Text is a sequence of characters; CharRank is the collation rank that
\* String.prototype.localeCompare gives them (space < hyphen < digits).
CharRank(c) ==
    CASE c = " " -> 0
      [] c = "-" -> 1
      [] c = "7" -> 2
      [] c = "8" -> 3
      [] c = "9" -> 4

RECURSIVE localeCompare(_, _)
localeCompare(a, b) ==
    IF a = <<>> /\ b = <<>> THEN 0
    ELSE IF a = <<>> THEN -1
    ELSE IF b = <<>> THEN 1
    ELSE IF CharRank(Head(a)) < CharRank(Head(b)) THEN -1
    ELSE IF CharRank(Head(a)) > CharRank(Head(b)) THEN 1
    ELSE localeCompare(Tail(a), Tail(b))

\* schedules.time is free text typed in the dialog; timetable.start_time and
\* end_time are TIME values.
PersonalTimes == {<<"8">>, <<"7", " ", "-", " ", "9">>}
StartTimes == {<<"7">>, <<"8">>}
EndTimes == {<<"9">>}

\* day_of_week is free text in both tables; the viewer's day keys are lower case.
DayKeys == {"monday", "tuesday"}
PersonalDays == {"monday", "tuesday"}
TimetableDays == {"Monday", "tuesday"}

toLowerCase(d) == IF d = "Monday" THEN "monday" ELSE d

\* The sequences that list every row of a set once.
Orderings(rows) ==
    {q \in [1..Cardinality(rows) -> rows] :
        \A i, j \in 1..Cardinality(rows) : i # j => q[i] # q[j]}

\* .order(column): ascending by the column; the store fixes no order among
\* rows whose column values are equal.
OrderBy(rows, column) ==
    {q \in Orderings(rows) :
        \A i, j \in DOMAIN q : i < j => localeCompare(q[i][column], q[j][column]) <= 0}

\* from('schedules').select('*').eq('user_id', user.id).order('time')
FetchSchedulesReplies(uid) ==
    OrderBy({r \in SelectRows("schedules", uid, schedRows) : r.owner = uid}, "time")

\* from('timetable').select('*').order('start_time'), with .eq('class', userClass)
\* only when userClass is set
FetchTimetableReplies(uid, userClass) ==
    OrderBy({r \in SelectRows("timetable", uid, ttRows) :
                userClass # NULL => r.class = userClass}, "start_time")


\* A session of `owner` inserts a personal schedule row (policy: WITH CHECK
\* auth.uid() = user_id).  Other sessions write while the viewer is closed; what
\* they write while it is open is seen at its next load.
InsertSchedule(caller, owner, day, time) ==
    /\ svPc = "unmounted"
    /\ Cardinality(schedRows) + Cardinality(ttRows) < MaxSchedRows
    /\ LET r == [id |-> Cardinality(schedRows) + 1, owner |-> owner,
                 day_of_week |-> day, time |-> time]
       IN schedRows' = IF InsertCheck("schedules", caller, r)
                       THEN schedRows \cup {r} ELSE schedRows
    /\ UNCHANGED <<ttRows, schedules, timetable, selectedDay, viewMode, svPc, svDept,
                   svPending>>
    /\ UNCHANGED nonSchedVars

\* A session of `owner` inserts a timetable row (policy: FOR ALL USING
\* auth.uid() = lecturer_id).
InsertTimetable(caller, owner, class, day, start, end) ==
    /\ svPc = "unmounted"
    /\ Cardinality(schedRows) + Cardinality(ttRows) < MaxSchedRows
    /\ LET r == [id |-> Cardinality(ttRows) + 1, owner |-> owner, class |-> class,
                 day_of_week |-> day, start_time |-> start, end_time |-> end]
       IN ttRows' = IF InsertCheck("timetable", caller, r)
                    THEN ttRows \cup {r} ELSE ttRows
    /\ UNCHANGED <<schedRows, schedules, timetable, selectedDay, viewMode, svPc, svDept,
                   svPending>>
    /\ UNCHANGED nonSchedVars

\* useEffect -> fetchUserData: setIsLoading(true), profile query sent.
SvMount ==
    /\ svPc = "unmounted"
    /\ svPc' = "profile"
    /\ UNCHANGED <<schedRows, ttRows, schedules, timetable, selectedDay, viewMode,
                   svDept, svPending>>
    /\ UNCHANGED nonSchedVars

\* The profile reply: department kept, both fetches started (Promise.all).
SvProfile ==
    /\ svPc = "profile"
    /\ svDept' = profiles[user].department
    /\ svPending' = {"schedules", "timetable"}
    /\ svPc' = "fetching"
    /\ UNCHANGED <<schedRows, ttRows, schedules, timetable, selectedDay, viewMode>>
    /\ UNCHANGED nonSchedVars

\* finally { setIsLoading(false) } once both fetches of Promise.all are back.
SvPcAfter(pending) == IF svPc = "fetching" /\ pending = {} THEN "done" ELSE svPc

\* isLoading of the ScheduleViewer.
svIsLoading == svPc \in {"profile", "fetching"}

\* fetchSchedules: query and setSchedules(data).
FetchSchedules ==
    /\ "schedules" \in svPending
    /\ \E q \in FetchSchedulesReplies(user) : schedules' = q
    /\ svPending' = svPending \ {"schedules"}
    /\ svPc' = SvPcAfter(svPending')
    /\ UNCHANGED <<schedRows, ttRows, timetable, selectedDay, viewMode, svDept>>
    /\ UNCHANGED nonSchedVars

\* fetchTimetable(profileData?.department): query and setTimetable(data).
FetchTimetable ==
    /\ "timetable" \in svPending
    /\ \E q \in FetchTimetableReplies(user, svDept) : timetable' = q
    /\ svPending' = svPending \ {"timetable"}
    /\ svPc' = SvPcAfter(svPending')
    /\ UNCHANGED <<schedRows, ttRows, schedules, selectedDay, viewMode, svDept>>
    /\ UNCHANGED nonSchedVars

\* handleAddSchedule: insert { ...newSchedule, user_id: user.id }, then
\* fetchSchedules().
handleAddSchedule(day, time) ==
    /\ svPc = "done"
    /\ Cardinality(schedRows) + Cardinality(ttRows) < MaxSchedRows
    /\ schedRows' = schedRows \cup
          {[id |-> Cardinality(schedRows) + 1, owner |-> user,
            day_of_week |-> day, time |-> time]}
    /\ svPending' = svPending \cup {"schedules"}
    /\ UNCHANGED <<ttRows, schedules, timetable, selectedDay, viewMode, svPc, svDept>>
    /\ UNCHANGED nonSchedVars

\* The day tabs and the view-mode buttons.
SelectDay(d) ==
    /\ svPc # "unmounted"
    /\ d # selectedDay
    /\ selectedDay' = d
    /\ UNCHANGED <<schedRows, ttRows, schedules, timetable, viewMode, svPc, svDept,
                   svPending>>
    /\ UNCHANGED nonSchedVars

SetViewMode(m) ==
    /\ svPc # "unmounted"
    /\ m # viewMode
    /\ viewMode' = m
    /\ UNCHANGED <<schedRows, ttRows, schedules, timetable, selectedDay, svPc, svDept,
                   svPending>>
    /\ UNCHANGED nonSchedVars

\* The component is unmounted: its state is discarded.
SvUnmount ==
    /\ svPc # "unmounted"
    /\ schedules' = <<>>
    /\ timetable' = <<>>
    /\ selectedDay' = "monday"
    /\ viewMode' = "all"
    /\ svPc' = "unmounted"
    /\ svDept' = NULL
    /\ svPending' = {}
    /\ UNCHANGED <<schedRows, ttRows>>
    /\ UNCHANGED nonSchedVars

\* schedules.filter / timetable.filter by the selected day
currentPersonalSchedules ==
    SelectSeq(schedules, LAMBDA s : toLowerCase(s.day_of_week) = selectedDay)

currentTimetable ==
    SelectSeq(timetable, LAMBDA c : toLowerCase(c.day_of_week) = selectedDay)

\* The entries getDisplayData maps the rows to.
PersonalEntry(item) ==
    [type |-> "personal", id |-> item.id, displayTime |-> item.time]

LecturerEntry(item) ==
    [type |-> "lecturer", id |-> item.id,
     displayTime |-> item.start_time \o <<" ", "-", " ">> \o item.end_time]

\* Array.prototype.sort with (a, b) => a.displayTime.localeCompare(b.displayTime):
\* a stable sort, here by insertion after every entry that does not compare greater.
RECURSIVE InsertSortedReversed(_, _)
InsertSortedReversed(e, sorted) ==
    IF sorted = <<>> THEN <<e>>
    ELSE IF localeCompare(Head(sorted).displayTime, e.displayTime) < 0
         THEN <<Head(sorted)>> \o InsertSortedReversed(e, Tail(sorted))
         ELSE <<e>> \o sorted

RECURSIVE InsertSorted(_, _)
InsertSorted(e, sorted) ==
    IF sorted = <<>> THEN <<e>>
    ELSE IF localeCompare(Head(sorted).displayTime, e.displayTime) <= 0
         THEN <<Head(sorted)>> \o InsertSorted(e, Tail(sorted))
         ELSE <<e>> \o sorted

RECURSIVE sortReversingTies(_)
sortReversingTies(arr) ==
    IF arr = <<>> THEN <<>>
    ELSE InsertSortedReversed(arr[Len(arr)], sortReversingTies(SubSeq(arr, 1, Len(arr) - 1)))

RECURSIVE sort(_)
sort(arr) ==
    IF arr = <<>> THEN <<>>
    ELSE InsertSorted(arr[Len(arr)], sort(SubSeq(arr, 1, Len(arr) - 1)))

\* The two mapped arrays of getDisplayData.
personalEntries ==
    [i \in DOMAIN currentPersonalSchedules |-> PersonalEntry(currentPersonalSchedules[i])]

lecturerEntries ==
    [i \in DOMAIN currentTimetable |-> LecturerEntry(currentTimetable[i])]

\* getDisplayData()
getDisplayData ==
    CASE viewMode = "personal" -> personalEntries
      [] viewMode = "lecturer" -> lecturerEntries
      [] OTHER -> sort(personalEntries \o lecturerEntries)

ViewModes == {"personal", "lecturer", "all"}

InitStoreSched ==
    /\ profiles \in InitProfiles
    /\ tbl = "timetable"
    /\ store = {}
    /\ nextId = 1
    /\ lastOp = NoOp

InitSchedSpec == InitStoreSched /\ InitNotif /\ InitSched /\ InitDash /\ InitClockAcct /\ InitEdit /\ InitFeedback /\ InitPush

NextSched ==
    \/ \E caller \in Users, day \in PersonalDays, time \in PersonalTimes :
          InsertSchedule(caller, caller, day, time)
    \/ \E caller \in Users, class \in Classes, day \in TimetableDays,
          start \in StartTimes, end \in EndTimes :
          InsertTimetable(caller, caller, class, day, start, end)
    \/ SvMount
    \/ SvProfile
    \/ FetchSchedules
    \/ FetchTimetable
    \/ \E day \in PersonalDays, time \in PersonalTimes : handleAddSchedule(day, time)
    \/ \E d \in DayKeys : SelectDay(d)
    \/ \E m \in ViewModes : SetViewMode(m)
    \/ SvUnmount

SpecSched == InitSchedSpec /\ [][NextSched]_vars


\* The viewer has loaded and no fetch is in flight.
SvLoaded == svPc = "done" /\ svPending = {}

\* The entries of the view as (tag, row id) pairs.
ViewEntries ==
    {[type |-> getDisplayData[i].type, id |-> getDisplayData[i].id] :
        i \in DOMAIN getDisplayData}

\* C12: the merged view for a day contains exactly the caller's personal
\* schedule rows for that day (tagged personal) plus the timetable rows for
\* that day whose class is the caller's class (tagged as class rows, 'lecturer'
\* in the source); no timetable row of another class, also when the caller's
\* profile has no department.
C12_MergeViewMembership ==
    (SvLoaded /\ viewMode = "all") =>
        /\ ViewEntries =
              {[type |-> "personal", id |-> r.id] :
                  r \in {s \in schedRows :
                            s.owner = user /\ toLowerCase(s.day_of_week) = selectedDay}}
              \cup
              {[type |-> "lecturer", id |-> r.id] :
                  r \in {c \in ttRows :
                            /\ toLowerCase(c.day_of_week) = selectedDay
                            /\ c.class = profiles[user].department}}
        /\ Len(getDisplayData) = Cardinality(ViewEntries)


\* C14: when a timetable row exists for class "CS-Y2" and the caller's profile
\* department is "CS-Y2", the merged view for that row's day shows it as a
\* class entry: a student sees every timetable row of the own class, although a
\* lecturer owns it.
C14_ClassRowShown ==
    (SvLoaded /\ viewMode = "all" /\ profiles[user].department = "CS-Y2") =>
        \A c \in ttRows :
            (c.class = "CS-Y2" /\ toLowerCase(c.day_of_week) = selectedDay) =>
                /\ \E i \in DOMAIN timetable : timetable[i] = c
                /\ [type |-> "lecturer", id |-> c.id] \in ViewEntries


\* The view is in non-decreasing order of the display time string.
ViewSorted ==
    \A i, j \in DOMAIN getDisplayData :
        i < j => localeCompare(getDisplayData[i].displayTime,
                               getDisplayData[j].displayTime) <= 0

\* The place of an entry in the array handed to sort: [...personal, ...lecturer].
InputIndex(e) ==
    CHOOSE k \in DOMAIN (personalEntries \o lecturerEntries) :
        (personalEntries \o lecturerEntries)[k] = e

\* C13 as stated: the merged sequence is sorted in non-decreasing order of the
\* display time string, and entries with equal display time from the same
\* source stand in the order in which their rows were inserted.
C13_SortedTiesByInsertion ==
    (SvLoaded /\ viewMode = "all") =>
        /\ ViewSorted
        /\ \A i, j \in DOMAIN getDisplayData :
              (/\ i < j
               /\ getDisplayData[i].displayTime = getDisplayData[j].displayTime
               /\ getDisplayData[i].type = getDisplayData[j].type)
              => getDisplayData[i].id < getDisplayData[j].id

\* C13 amended: the merged sequence is sorted in non-decreasing order of the
\* display time string, and entries with equal display time keep the order they
\* had in the fetched arrays, personal entries before timetable entries; the
\* store fixes no order among rows of equal time, so this need not be the
\* order of insertion.
C13_SortedTiesByFetchOrder ==
    viewMode = "all" =>
        /\ ViewSorted
        /\ \A i, j \in DOMAIN getDisplayData :
              (i < j /\ getDisplayData[i].displayTime = getDisplayData[j].displayTime)
              => InputIndex(getDisplayData[i]) < InputIndex(getDisplayData[j])

\* Witness for C13: a loaded merged view in which the sort moved a timetable
\* entry in front of a personal one, and one with a tie inside one source.
C13_Witness ==
    /\ SvLoaded /\ viewMode = "all"
    /\ Len(getDisplayData) = 2
    /\ \/ /\ getDisplayData[1].type = "lecturer"
          /\ getDisplayData[2].type = "personal"
       \/ /\ getDisplayData[1].type = getDisplayData[2].type
          /\ getDisplayData[1].displayTime = getDisplayData[2].displayTime


---------------------------------------------------------------------------
(* Dashboard: the student's updates (announcements) feed.                  *)

MaxUpdates == 2        \* rows in updates

UpdatesLimit == 4

\* from("updates").select("*").order("created_at", desc).limit(4), with
\* .or(`target_class.eq.${studentClass},target_class.is.null,target_class.eq.all`)
\* only when studentClass is set; as the store answers it to caller uid
FetchUpdatesReply(uid, studentClass) ==
    Limit(NewestFirst({r \in SelectRows("updates", uid, updRows) :
                          studentClass # NULL =>
                              \/ r.target_class = studentClass
                              \/ r.target_class = NULL
                              \/ r.target_class = "all"}),
          UpdatesLimit)

\* A session of `caller` inserts an update row for `owner` (policy: FOR ALL
\* USING auth.uid() = lecturer_id; the policy does not look at the role).
InsertUpdate(caller, owner, target) ==
    /\ Cardinality(updRows) < MaxUpdates
    /\ LET r == [id |-> Cardinality(updRows) + 1, owner |-> owner,
                 target_class |-> target, created_at |-> Cardinality(updRows) + 1]
       IN updRows' = IF InsertCheck("updates", caller, r)
                     THEN updRows \cup {r} ELSE updRows
    /\ UNCHANGED <<updates, dashPc, dashDept>>
    /\ UNCHANGED nonDashVars

\* useEffect -> fetchData: setLoading(true), getUser, profile query sent.
DashMount ==
    /\ dashPc = "idle"
    /\ dashPc' = "profile"
    /\ UNCHANGED <<updRows, updates, dashDept>>
    /\ UNCHANGED nonDashVars

\* The profile reply: a lecturer account gets the error and nothing is fetched;
\* otherwise the fetches start with profileData.department.
DashProfile ==
    /\ dashPc = "profile"
    /\ IF profiles[user].role = "lecturer"
       THEN dashPc' = "error" /\ UNCHANGED dashDept
       ELSE dashPc' = "fetching" /\ dashDept' = profiles[user].department
    /\ UNCHANGED <<updRows, updates>>
    /\ UNCHANGED nonDashVars

\* fetchUpdates(profileData.department): query and setUpdates(data).
FetchUpdates ==
    /\ dashPc = "fetching"
    /\ updates' = FetchUpdatesReply(user, dashDept)
    /\ dashPc' = "done"
    /\ UNCHANGED <<updRows, dashDept>>
    /\ UNCHANGED nonDashVars

\* The Dashboard is unmounted: its state is discarded.
DashUnmount ==
    /\ dashPc # "idle"
    /\ updates' = <<>>
    /\ dashPc' = "idle"
    /\ dashDept' = NULL
    /\ UNCHANGED updRows
    /\ UNCHANGED nonDashVars

InitDashSpec ==
    /\ InitStoreSched
    /\ user \in Users
    /\ notifTable = {}
    /\ mounted = FALSE
    /\ chan = "none"
    /\ events = <<>>
    /\ notifications = <<>>
    /\ isLoading = TRUE
    /\ fetchPc = "idle"
    /\ fetchReply = NoReply
    /\ markReq = NoMark
    /\ toast = NoToast
    /\ feed = <<>>
    /\ InitSched
    /\ InitDash /\ InitClockAcct /\ InitEdit /\ InitFeedback /\ InitPush

NextDash ==
    \/ \E caller \in Users, owner \in Users, target \in ClassValues("updates") :
          InsertUpdate(caller, owner, target)
    \/ DashMount
    \/ DashProfile
    \/ FetchUpdates
    \/ DashUnmount

SpecDash == InitDashSpec /\ [][NextDash]_vars

\* C16: a student's updates feed contains an update only if its target_class
\* equals the student's class/department, or is null or "all"; an update
\* targeted at a different class never appears, whatever the profile contains.
C16_UpdatesScoped ==
    \A i \in DOMAIN updates :
        \/ updates[i].target_class = profiles[user].department
        \/ updates[i].target_class = NULL
        \/ updates[i].target_class = "all"


---------------------------------------------------------------------------
(* Status and type columns: appointments, feedback, consultations and       *)
(* reports written through the store.  Rows are [id, owner, fields], fields *)
(* mapping each status/type column of the table to its value.              *)

EnumTables == {"appointments", "feedback", "consultations", "reports"}

\* The status and type columns that the tables declare.
EnumColumns(t) ==
    CASE t = "appointments" -> {"status"}
      [] t = "feedback" -> {"status", "priority"}
      [] t = "consultations" -> {"status"}
      [] t = "reports" -> {"report_type"}

\* The CHECK constraints of the columns: consultations.status and
\* reports.report_type carry one, the other columns are plain TEXT NOT NULL.
CheckConstraint(t, column, v) ==
    CASE t = "consultations" /\ column = "status" ->
            v \in {"pending", "approved", "declined"}
      [] t = "reports" /\ column = "report_type" -> v \in {"sent", "received"}
      [] OTHER -> TRUE

\* The values a session sends for a column: two of the enumeration and a text
\* outside it.
WrittenValues(t, column) ==
    CASE t = "feedback" /\ column = "status" -> {"under_review", "resolved", "archived"}
      [] t = "feedback" /\ column = "priority" -> {"medium", "high", "urgent"}
      [] t = "reports" -> {"sent", "received", "draft"}
      [] OTHER -> {"pending", "approved", "archived"}

RowAccepted(t, fields) ==
    \A column \in EnumColumns(t) : CheckConstraint(t, column, fields[column])

\* from(tbl).insert({..., status, ...}) by caller for itself
InsertEnum(caller, fields) ==
    /\ nextId <= MaxRows
    /\ LET r == [id |-> nextId, owner |-> caller, fields |-> fields]
       IN IF InsertCheck(tbl, caller, r) /\ RowAccepted(tbl, fields)
          THEN /\ store' = store \cup {r}
               /\ nextId' = nextId + 1
               /\ lastOp' = [NoOp EXCEPT !.op = "insert", !.caller = caller,
                                         !.id = r.id, !.rows = {r}]
          ELSE /\ UNCHANGED <<store, nextId>>
               /\ lastOp' = [NoOp EXCEPT !.op = "insert", !.caller = caller,
                                         !.id = r.id, !.rows = {r},
                                         !.error = "check_violation"]
    /\ UNCHANGED <<profiles, tbl>>
    /\ UNCHANGED nonStoreVars

\* from(tbl).update({ column: v }).eq('id', id) by caller
UpdateEnum(caller, id, column, v) ==
    /\ LET targets == UpdateTargets(tbl, caller, store, id)
           written == {[r EXCEPT !.fields[column] = v] : r \in targets}
       IN IF \A r \in written : RowAccepted(tbl, r.fields)
          THEN /\ store' = (store \ targets) \cup written
               /\ lastOp' = [NoOp EXCEPT !.op = "update", !.caller = caller,
                                         !.id = id, !.rows = written]
          ELSE /\ UNCHANGED store
               /\ lastOp' = [NoOp EXCEPT !.op = "update", !.caller = caller,
                                         !.id = id, !.rows = written,
                                         !.error = "check_violation"]
    /\ UNCHANGED <<profiles, tbl, nextId>>
    /\ UNCHANGED nonStoreVars

\* The rows a session can send: a value for every status/type column.
FieldChoices(t) ==
    {f \in [EnumColumns(t) -> UNION {WrittenValues(t, c) : c \in EnumColumns(t)}] :
        \A c \in EnumColumns(t) : f[c] \in WrittenValues(t, c)}

\* The single-column writes a session can send, as <<column, value>>.
ColumnWrites(t) ==
    UNION {{<<c, v>> : v \in WrittenValues(t, c)} : c \in EnumColumns(t)}

InitEnum ==
    /\ profiles = [u \in Users |-> [role |-> "student", department |-> NULL]]
    /\ tbl \in EnumTables
    /\ store = {}
    /\ nextId = 1
    /\ lastOp = NoOp
    /\ InitNotif
    /\ InitSched
    /\ InitDash /\ InitClockAcct /\ InitEdit /\ InitFeedback /\ InitPush

NextEnum ==
    \/ \E caller \in Users, fields \in FieldChoices(tbl) : InsertEnum(caller, fields)
    \/ \E caller \in Users, id \in 1..MaxRows, w \in ColumnWrites(tbl) :
          UpdateEnum(caller, id, w[1], w[2])

SpecEnum == InitEnum /\ [][NextEnum]_vars

\* The closed enumerations the columns are specified to have.
Enumeration(t, column) ==
    CASE t = "feedback" /\ column = "status" ->
            {"under_review", "in_progress", "resolved", "closed"}
      [] t = "feedback" /\ column = "priority" -> {"low", "medium", "high"}
      [] t = "reports" -> {"sent", "received"}
      [] OTHER -> {"pending", "approved", "declined"}

\* C17: every status and type field stays inside its closed enumeration in
\* every reachable store state (appointment status, feedback status and
\* priority, consultation status, report_type), and a write with a value
\* outside the enumeration is rejected.
C17_ClosedEnumerations ==
    /\ \A r \in store : \A column \in EnumColumns(tbl) :
          r.fields[column] \in Enumeration(tbl, column)
    /\ \A r \in lastOp.rows :
          (\E column \in EnumColumns(tbl) :
              r.fields[column] \notin Enumeration(tbl, column))
          => lastOp.error # NULL


---------------------------------------------------------------------------
(* Timestamps: created_at / updated_at of a collection's rows under the    *)
(* defaults and the BEFORE UPDATE triggers.  Rows are records [id, owner,  *)
(* val, created_at] with an updated_at field where the table declares one. *)

MaxClock == 2          \* ticks of the store's clock
MaxTimedRows == 1      \* rows in the timed collection

TimedTables == Tables \cup {"profiles"}

\* Tables declared with an updated_at column.
HasUpdatedAtColumn(t) ==
    t \in {"profiles", "schedules", "appointments", "feedback", "push_subscriptions",
           "students", "timetable", "assignments", "consultations"}

\* Tables with a BEFORE UPDATE ... EXECUTE FUNCTION update_updated_at_column().
HasUpdatedAtTrigger(t) ==
    t \in {"profiles", "schedules", "appointments", "feedback", "push_subscriptions",
           "students", "timetable", "assignments", "consultations"}

\* A trigger function that returns NEW as it came.
update_updated_at_column_noop(new, time) == new

\* update_updated_at_column(): NEW.updated_at = NOW(); RETURN NEW
update_updated_at_column(new, time) == [new EXCEPT !.updated_at = time]

\* The row an UPDATE stores: the BEFORE UPDATE trigger of the table, if any,
\* applied to the new row.
BeforeUpdate(t, new, time) ==
    IF HasUpdatedAtTrigger(t) THEN update_updated_at_column(new, time) ELSE new

\* The row an INSERT stores: created_at, and updated_at where declared,
\* DEFAULT now().
NewTimedRow(t, id, owner, val, time) ==
    IF HasUpdatedAtColumn(t)
    THEN [id |-> id, owner |-> owner, val |-> val, created_at |-> time,
          updated_at |-> time]
    ELSE [id |-> id, owner |-> owner, val |-> val, created_at |-> time]

\* Time passes.
Tick ==
    /\ now < MaxClock
    /\ now' = now + 1
    /\ UNCHANGED <<storeVars, clientVars>>

\* from(tbl).insert({...}) by caller for itself
InsertTimed(caller, val) ==
    /\ nextId <= MaxTimedRows
    /\ LET r == NewTimedRow(tbl, nextId, caller, val, now)
       IN /\ InsertCheck(tbl, caller, r)
          /\ store' = store \cup {r}
          /\ nextId' = nextId + 1
          /\ lastOp' = [NoOp EXCEPT !.op = "insert", !.caller = caller,
                                    !.id = r.id, !.rows = {r}]
    /\ UNCHANGED <<profiles, tbl, now>>
    /\ UNCHANGED clientVars

\* from(tbl).update({ val }).eq('id', id) by caller
UpdateTimed(caller, id, val) ==
    /\ LET targets == UpdateTargets(tbl, caller, store, id)
           written == {BeforeUpdate(tbl, [r EXCEPT !.val = val], now) : r \in targets}
       IN /\ store' = (store \ targets) \cup written
          /\ lastOp' = [NoOp EXCEPT !.op = "update", !.caller = caller, !.id = id,
                                    !.rows = written, !.error = WriteError(targets),
                                    !.before = targets]
    /\ UNCHANGED <<profiles, tbl, nextId, now>>
    /\ UNCHANGED clientVars

InitTime ==
    /\ profiles = [u \in Users |-> [role |-> "student", department |-> NULL]]
    /\ tbl \in TimedTables
    /\ store = {}
    /\ nextId = 1
    /\ lastOp = NoOp
    /\ InitNotif
    /\ InitSched
    /\ InitDash /\ InitClockAcct /\ InitEdit /\ InitFeedback /\ InitPush

NextTime ==
    \/ Tick
    \/ \E caller \in Users, val \in Vals : InsertTimed(caller, val)
    \/ \E caller \in Users, id \in 1..MaxTimedRows, val \in Vals : UpdateTimed(caller, id, val)

SpecTime == InitTime /\ [][NextTime]_vars


\* A step that is a successful update: the statement matched rows.
UpdatedStep == now' = now /\ lastOp'.op = "update" /\ lastOp'.rows # {}

\* C18 as stated: every successful update of a row sets its updated_at to the
\* time of that update (never earlier than the previous value) and leaves
\* created_at unchanged, in every collection whose rows can be updated,
\* notifications included.
C18_UpdateRefreshesTimestamp ==
    [][UpdatedStep =>
          \A new \in lastOp'.rows :
              /\ "updated_at" \in DOMAIN new
              /\ new.updated_at = now
              /\ \A old \in lastOp'.before : old.id = new.id =>
                    /\ new.updated_at >= old.updated_at
                    /\ new.created_at = old.created_at]_vars

\* C18 amended: in the collections that declare updated_at (profiles,
\* schedules, appointments, feedback, push_subscriptions, students, timetable,
\* assignments, consultations) every successful update sets updated_at to the
\* time of the update, never earlier than before; notifications, reports,
\* study_materials and updates have no updated_at, and their updates refresh
\* no timestamp.  In every collection the update leaves created_at unchanged.
C18_TriggerTablesRefresh ==
    [][UpdatedStep =>
          \A new \in lastOp'.rows : \A old \in lastOp'.before : old.id = new.id =>
              /\ new.created_at = old.created_at
              /\ IF HasUpdatedAtColumn(tbl)
                 THEN new.updated_at = now /\ new.updated_at >= old.updated_at
                 ELSE "updated_at" \notin DOMAIN new]_vars

\* Witness for C18: an update, later than the insert, has refreshed updated_at
\* of a stored row.
C18_Witness ==
    /\ lastOp.op = "update"
    /\ \E r \in lastOp.rows :
          /\ r \in store
          /\ "updated_at" \in DOMAIN r
          /\ r.updated_at > r.created_at


---------------------------------------------------------------------------
(* Accounts: registration with its profile trigger, rows owned through the *)
(* foreign keys, and account deletion with its cascades.  Rows of the      *)
(* collections are records [id, table, owner].                             *)

\* raw_user_meta_data->>'role' as the sign-up sends it; NULL when not supplied.
MetaRoles == {NULL, "lecturer", "admin"}

COALESCE(a, b) == IF a # NULL THEN a ELSE b

\* handle_new_user(): the profile row inserted for the new auth.users row.
handle_new_user(new) ==
    [id |-> new.id, role |-> COALESCE(new.meta_role, "student")]

AccountIds == {a.id : a \in accounts}

ProfileIds == {p.id : p \in profileRows}

\* auth.users INSERT with the AFTER INSERT trigger on_auth_user_created; a
\* failing trigger (profiles primary key) aborts the insert.
Register(u, meta) ==
    /\ u \notin AccountIds
    /\ LET new == [id |-> u, meta_role |-> meta]
       IN IF new.id \in ProfileIds
          THEN /\ UNCHANGED <<accounts, profileRows>>
               /\ lastOp' = [NoOp EXCEPT !.op = "register", !.caller = u,
                                         !.error = "duplicate_key"]
          ELSE /\ accounts' = accounts \cup {new}
               /\ profileRows' = profileRows \cup {handle_new_user(new)}
               /\ lastOp' = [NoOp EXCEPT !.op = "register", !.caller = u]
    /\ UNCHANGED <<profiles, tbl, store, nextId>>
    /\ UNCHANGED <<notifVars, schedVars, dashVars, now, editVars, fbVars, pushVars>>

\* from('profiles').insert({ id }) by a signed-in caller (policy: WITH CHECK
\* auth.uid() = id; id is the primary key and references auth.users).
InsertProfile(caller, id) ==
    /\ caller \in AccountIds
    /\ IF caller = id /\ id \in AccountIds /\ id \notin ProfileIds
       THEN /\ profileRows' = profileRows \cup {[id |-> id, role |-> "student"]}
            /\ lastOp' = [NoOp EXCEPT !.op = "insert_profile", !.caller = caller]
       ELSE /\ UNCHANGED profileRows
            /\ lastOp' = [NoOp EXCEPT !.op = "insert_profile", !.caller = caller,
                                      !.error = "rejected"]
    /\ UNCHANGED <<profiles, tbl, store, nextId, accounts>>
    /\ UNCHANGED <<notifVars, schedVars, dashVars, now, editVars, fbVars, pushVars>>

\* The owner key references an existing row: user_id REFERENCES auth.users(id),
\* lecturer_id REFERENCES public.profiles(id).
ForeignKeyOk(t, owner) ==
    IF t \in PersonalTables THEN owner \in AccountIds ELSE owner \in ProfileIds

\* from(t).insert({ ..., owner }) by a signed-in caller
InsertOwned(caller, owner, t) ==
    /\ caller \in AccountIds
    /\ nextId <= MaxRows
    /\ LET r == [id |-> nextId, table |-> t, owner |-> owner]
       IN IF InsertCheck(t, caller, r) /\ ForeignKeyOk(t, owner)
          THEN /\ store' = store \cup {r}
               /\ nextId' = nextId + 1
               /\ lastOp' = [NoOp EXCEPT !.op = "insert", !.caller = caller,
                                         !.id = r.id, !.rows = {r}]
          ELSE /\ UNCHANGED <<store, nextId>>
               /\ lastOp' = [NoOp EXCEPT !.op = "insert", !.caller = caller,
                                         !.id = r.id, !.error = "rejected"]
    /\ UNCHANGED <<profiles, tbl, accounts, profileRows>>
    /\ UNCHANGED <<notifVars, schedVars, dashVars, now, editVars, fbVars, pushVars>>

\* profiles.id REFERENCES auth.users(id) ON DELETE CASCADE
CascadeProfiles(u, rows) == {p \in rows : p.id # u}

\* A cascade that reaches the user_id keys only.
CascadeRowsPersonalOnly(u, gone, rows) ==
    {r \in rows : ~(r.table \in PersonalTables /\ r.owner = u)}

\* user_id REFERENCES auth.users(id) ON DELETE CASCADE for the deleted account
\* u, lecturer_id REFERENCES public.profiles(id) ON DELETE CASCADE for the
\* profiles `gone` with it.
CascadeRows(u, gone, rows) ==
    {r \in rows : /\ ~(r.table \in PersonalTables /\ r.owner = u)
                  /\ ~(r.table \in LecturerTables /\ r.owner \in gone)}

\* DELETE FROM auth.users WHERE id = u
DeleteAccount(u) ==
    /\ u \in AccountIds
    /\ accounts' = {a \in accounts : a.id # u}
    /\ profileRows' = CascadeProfiles(u, profileRows)
    /\ store' = CascadeRows(u, ProfileIds \ {p.id : p \in profileRows'}, store)
    /\ lastOp' = [NoOp EXCEPT !.op = "delete_user", !.caller = u,
                              !.before = {r \in store : r.owner = u}]
    /\ UNCHANGED <<profiles, tbl, nextId>>
    /\ UNCHANGED <<notifVars, schedVars, dashVars, now, editVars, fbVars, pushVars>>

InitAcct ==
    /\ profiles = [u \in Users |-> [role |-> "student", department |-> NULL]]
    /\ tbl = "profiles"
    /\ store = {}
    /\ nextId = 1
    /\ lastOp = NoOp
    /\ InitNotif
    /\ InitSched
    /\ InitDash /\ InitClockAcct /\ InitEdit /\ InitFeedback /\ InitPush

NextAcct ==
    \/ \E u \in Users, meta \in MetaRoles : Register(u, meta)
    \/ \E caller \in Users, id \in Users : InsertProfile(caller, id)
    \/ \E caller \in Users, owner \in Users, t \in Tables : InsertOwned(caller, owner, t)
    \/ \E u \in Users : DeleteAccount(u)

SpecAcct == InitAcct /\ [][NextAcct]_vars

\* C19: after any sequence of account registrations every account has exactly
\* one profile row, whose id is the account id, created by the registration
\* itself, and its role is student or lecturer (student when none is supplied).
C19_ProfileAutoCreated ==
    \A a \in accounts :
        /\ Cardinality({p \in profileRows : p.id = a.id}) = 1
        /\ \A p \in profileRows : p.id = a.id =>
              /\ p.role \in {"student", "lecturer"}
              /\ (a.meta_role = NULL => p.role = "student")

\* C20: in every reachable store state each row's owner key references an
\* existing identity, and deleting an identity removes every row it owns in
\* all collections, leaving no orphan and removing no row of another identity.
C20_CascadeNoOrphans ==
    [][/\ \A r \in store' : ForeignKeyOk(r.table, r.owner)'
       /\ \A p \in profileRows' : p.id \in AccountIds'
       /\ \A u \in Users : (u \in AccountIds /\ u \notin AccountIds') =>
             /\ store' = {r \in store : r.owner # u}
             /\ profileRows' = {p \in profileRows : p.id # u}]_vars

\* Witness for C20: an account that owned rows was deleted and another
\* identity's rows are still stored.
C20_Witness ==
    /\ lastOp.op = "delete_user"
    /\ lastOp.before # {}
    /\ store # {}


---------------------------------------------------------------------------
(* Notification centre: the list against the store and the live feed.      *)

\* C25: in every reachable state a notification shown as read in the local
\* list has read = true in the store, also when a live insert arrives while
\* markAllAsRead awaits the store and when a mark-read update touches no row.
C25_LocalReadImpliesStoreRead ==
    \A i \in DOMAIN notifications :
        notifications[i].read =>
            \E r \in notifTable : r.id = notifications[i].id /\ r.read

\* C26: no notification is lost across the mount race: a notification of the
\* owner that a live insert event has put into the local list is still in the
\* list when the initial fetch completes and replaces the list, so it is
\* present once the fetch has completed.
C26_NoLostNotification ==
    [][(mounted' /\ fetchPc = "replied" /\ fetchPc' = "idle") =>
          \A i \in DOMAIN notifications :
              \E j \in DOMAIN notifications' :
                  notifications'[j].id = notifications[i].id]_vars

\* C27: every notification id occurs at most once in the local list, whatever
\* the interleaving of the initial fetch and the live insert events, so
\* unreadCount counts no notification twice.
C27_NoDuplicateNotification ==
    /\ \A i, j \in DOMAIN notifications :
          notifications[i].id = notifications[j].id => i = j
    /\ unreadCount <= Cardinality({r \in notifTable : r.owner = user})


\* C22: every failing store operation at the presentation boundary shows a
\* visible message: the step of the notification centre that takes a failed
\* reply of the fetch, of mark read or of mark all read shows an error toast.
C22_FailureShowsMessage ==
    [][/\ (mounted' /\ fetchPc = "replied" /\ fetchPc' = "idle"
                    /\ fetchReply.error # NULL) => toast' = "Error"
       /\ (mounted' /\ markReq # NoMark /\ markReq' = NoMark
                    /\ markReq.error # NULL) => toast' = "Error"]_vars


---------------------------------------------------------------------------
(* Owner key of a row: the store under writes that name the owner column. *)

\* A FOR UPDATE policy whose USING clause is not applied to the new row.
UpdateCheckOmitted(t, uid, r) == TRUE

\* FOR UPDATE USING (auth.uid() = user_id) and FOR ALL USING (auth.uid() =
\* lecturer_id) name no WITH CHECK: the USING expression is then applied to
\* the new row as well.
UpdateCheck(t, uid, r) == UpdatePolicy(t, uid, r)

\* from(tbl).update({ user_id: owner }).eq('id', id) by caller (lecturer_id on
\* a lecturer table): a new row that fails the check aborts the statement.
UpdateOwner(caller, id, owner) ==
    /\ LET targets == UpdateTargets(tbl, caller, store, id)
           news == {[r EXCEPT !.owner = owner] : r \in targets}
           ok == \A n \in news : UpdateCheck(tbl, caller, n)
       IN /\ store' = IF ok THEN (store \ targets) \cup news ELSE store
          /\ lastOp' = [NoOp EXCEPT !.op = "update_owner", !.caller = caller, !.id = id,
                                    !.rows = IF ok THEN targets ELSE {},
                                    !.error = IF ok THEN WriteError(targets)
                                              ELSE "rls_violation",
                                    !.before = {r \in store : r.id = id}]
    /\ UNCHANGED <<profiles, tbl, nextId>>
    /\ UNCHANGED nonStoreVars

InitOwner ==
    /\ profiles = [u \in Users |->
                     [role |-> IF u = "u1" THEN "student" ELSE "lecturer",
                      department |-> "CS-Y2"]]
    /\ tbl \in {"schedules", "feedback", "timetable"}
    /\ store = {}
    /\ nextId = 1
    /\ lastOp = NoOp
    /\ InitNotif /\ InitSched /\ InitDash /\ InitClockAcct /\ InitEdit /\ InitFeedback /\ InitPush

NextOwner ==
    \/ \E caller \in Users, owner \in Users, class \in ClassValues(tbl), val \in Vals :
          Create(caller, owner, class, val)
    \/ \E caller \in Users, id \in 1..MaxRows, val \in Vals : UpdateRow(caller, id, val)
    \/ \E caller \in Users, id \in 1..MaxRows, owner \in Users :
          UpdateOwner(caller, id, owner)
    \/ \E caller \in Users, id \in 1..MaxRows : DeleteRow(caller, id)

SpecOwner == InitOwner /\ [][NextOwner]_vars

\* C30: the owner key of a row is the same in every state from its creation
\* to its deletion: no admitted write, an edit of the other fields or an
\* update that names the owner column, moves a row to another owner, and a
\* row that appears in the table carries the creating caller as its owner.
C30_OwnerImmutable ==
    [][/\ \A r \in store : \A q \in store' : q.id = r.id => q.owner = r.owner
       /\ \A q \in store' :
             (\A r \in store : r.id # q.id) => q.owner = lastOp'.caller]_vars

\* The owner of a row asked the store to hand the row to another user and
\* the statement was refused.
C30_Witness ==
    /\ lastOp.op = "update_owner"
    /\ lastOp.error = "rls_violation"
    /\ \E r \in store : r.id = lastOp.id /\ r.owner = lastOp.caller


---------------------------------------------------------------------------
(* ScheduleViewer.tsx: the owner's schedule rows, added, edited and        *)
(* deleted from two devices.  A handler runs up to its await in one step   *)
(* (the store executes the statement there) and from the reply on in the   *)
(* next; fetchSchedules is one step, query and reply together.             *)

MaxWrites == 3

MaxEditRows == 2

nonEditVars == <<storeVars, notifVars, schedVars, dashVars, now, acctVars, fbVars,
                 pushVars>>

\* useState({ course: "", time: "", location: "", instructor: "",
\*            type: "Lecture", day_of_week: "monday" })
newScheduleBlank ==
    [course |-> "", time |-> <<>>, location |-> "", instructor |-> "",
     type |-> "Lecture", day_of_week |-> "monday"]

\* What the add dialog can hold when Add is clicked: nothing typed, every
\* text field typed, every text field but the course typed.
NewScheduleForms ==
    {newScheduleBlank,
     [newScheduleBlank EXCEPT !.course = "b", !.time = <<"9">>, !.location = "b",
                              !.instructor = "b"],
     [newScheduleBlank EXCEPT !.time = <<"9">>, !.location = "b", !.instructor = "b"]}

\* The inputs of the edit dialog, one per editable column.
EditFields == {"course", "time", "location", "instructor", "type", "day_of_week"}

\* The values the inputs of the edit dialog can be given.
FieldValues(f) ==
    CASE f = "time" -> {<<"8">>, <<"9">>}
      [] f = "type" -> {"Lecture", "Lab"}
      [] f = "day_of_week" -> {"monday", "tuesday"}
      [] OTHER -> {"a", "b"}

\* course, time, location, instructor, type, day_of_week TEXT NOT NULL: the
\* empty string is a value, not NULL.
NotNull(r) ==
    \A f \in EditFields : r[f] # NULL

\* An update object that leaves the type out.
UpdatePayloadWithoutType(e) ==
    [course |-> e.course, time |-> e.time, location |-> e.location,
     instructor |-> e.instructor, day_of_week |-> e.day_of_week]

\* update({ course, time, location, instructor, type, day_of_week }) of
\* handleEditSchedule
UpdatePayload(e) ==
    [course |-> e.course, time |-> e.time, location |-> e.location,
     instructor |-> e.instructor, type |-> e.type, day_of_week |-> e.day_of_week]

\* UPDATE ... SET: the columns the object names take its values
SetColumns(r, payload) ==
    [c \in DOMAIN r |-> IF c \in DOMAIN payload THEN payload[c] ELSE r[c]]

\* .eq('id', id).eq('user_id', uid) under the policies
OwnTargets(uid, id) ==
    {r \in UpdateTargets("schedules", uid, schedTable, id) : r.owner = uid}

\* fetchSchedules(): setIsLoading(true) and the query is on its way
StartFetch(d) ==
    /\ devIsLoading' = [devIsLoading EXCEPT ![d] = TRUE]
    /\ devPc' = [devPc EXCEPT ![d] = "fetch"]

\* fetchSchedules from the query on: select('*').eq('user_id', user.id)
\* .order('time'); error -> toast; else setSchedules(data); finally
\* setIsLoading(false)
FetchSchedulesDone(d, fault) ==
    /\ devPc[d] = "fetch"
    /\ IF fault # NULL
       THEN /\ devToast' = [devToast EXCEPT ![d] = "Error"]
            /\ UNCHANGED devSchedules
       ELSE /\ \E q \in OrderBy({r \in SelectRows("schedules", devUser[d], schedTable) :
                                   r.owner = devUser[d]}, "time") :
                  devSchedules' = [devSchedules EXCEPT ![d] = q]
            /\ UNCHANGED devToast
    /\ devIsLoading' = [devIsLoading EXCEPT ![d] = FALSE]
    /\ devPc' = [devPc EXCEPT ![d] = "idle"]
    /\ UNCHANGED devReply
    /\ UNCHANGED <<schedTable, edWrites, devUser, editSchedule>>
    /\ UNCHANGED nonEditVars

\* handleAddSchedule up to the store's answer: insert({ ...newSchedule,
\* user_id: user.id }) with the dialog holding form
handleAddScheduleEd(d, form, fault) ==
    /\ devUser[d] # NULL
    /\ devPc[d] = "idle"
    /\ ~devIsLoading[d]
    /\ edWrites < MaxWrites
    /\ Cardinality(schedTable) < MaxEditRows
    /\ LET r == [id |-> edWrites + 1, owner |-> devUser[d], course |-> form.course,
                 time |-> form.time, location |-> form.location,
                 instructor |-> form.instructor, type |-> form.type,
                 day_of_week |-> form.day_of_week]
           ok == fault = NULL /\ InsertCheck("schedules", devUser[d], r) /\ NotNull(r)
       IN /\ schedTable' = IF ok THEN schedTable \cup {r} ELSE schedTable
          /\ devReply' = [devReply EXCEPT ![d] = IF ok THEN NULL
                                                 ELSE IF fault # NULL THEN fault
                                                 ELSE "rejected"]
    /\ edWrites' = edWrites + 1
    /\ devPc' = [devPc EXCEPT ![d] = "add"]
    /\ UNCHANGED <<devUser, devSchedules, devIsLoading, editSchedule, devToast>>
    /\ UNCHANGED nonEditVars

\* handleAddSchedule from the answer on
AddScheduleDone(d) ==
    /\ devPc[d] = "add"
    /\ IF devReply[d] # NULL
       THEN /\ devToast' = [devToast EXCEPT ![d] = "Error"]
            /\ devPc' = [devPc EXCEPT ![d] = "idle"]
            /\ UNCHANGED devIsLoading
       ELSE /\ devToast' = [devToast EXCEPT ![d] = "Success"]
            /\ StartFetch(d)
    /\ devReply' = [devReply EXCEPT ![d] = NULL]
    /\ UNCHANGED <<schedTable, edWrites, devUser, devSchedules, editSchedule>>
    /\ UNCHANGED nonEditVars

\* The pencil button of the i-th row: setEditSchedule(class_item)
OpenEdit(d, i) ==
    /\ ~devIsLoading[d]
    /\ i \in DOMAIN devSchedules[d]
    /\ editSchedule' = [editSchedule EXCEPT ![d] = devSchedules[d][i]]
    /\ UNCHANGED <<schedTable, edWrites, devUser, devSchedules, devIsLoading, devPc,
                   devReply, devToast>>
    /\ UNCHANGED nonEditVars

\* onChange of an input of the edit dialog: setEditSchedule({ ...editSchedule,
\* [f]: v }); the owner changes one field of the row as it is listed
TypeEdit(d, f, v) ==
    /\ ~devIsLoading[d]
    /\ editSchedule[d] # NoSchedule
    /\ editSchedule[d][f] # v
    /\ \E i \in DOMAIN devSchedules[d] : devSchedules[d][i] = editSchedule[d]
    /\ editSchedule' = [editSchedule EXCEPT ![d][f] = v]
    /\ UNCHANGED <<schedTable, edWrites, devUser, devSchedules, devIsLoading, devPc,
                   devReply, devToast>>
    /\ UNCHANGED nonEditVars

\* handleEditSchedule up to the store's answer
handleEditSchedule(d, fault) ==
    /\ editSchedule[d] # NoSchedule
    /\ devUser[d] # NULL
    /\ devPc[d] = "idle"
    /\ ~devIsLoading[d]
    /\ edWrites < MaxWrites
    /\ LET targets == OwnTargets(devUser[d], editSchedule[d].id)
       IN /\ schedTable' =
                IF fault # NULL THEN schedTable
                ELSE (schedTable \ targets)
                     \cup {SetColumns(r, UpdatePayload(editSchedule[d])) : r \in targets}
          /\ devReply' = [devReply EXCEPT ![d] = IF fault # NULL THEN fault
                                                 ELSE WriteError(targets)]
    /\ edWrites' = edWrites + 1
    /\ devPc' = [devPc EXCEPT ![d] = "edit"]
    /\ UNCHANGED <<devUser, devSchedules, devIsLoading, editSchedule, devToast>>
    /\ UNCHANGED nonEditVars

\* handleEditSchedule from the answer on
EditScheduleDone(d) ==
    /\ devPc[d] = "edit"
    /\ IF devReply[d] # NULL
       THEN /\ devToast' = [devToast EXCEPT ![d] = "Error"]
            /\ devPc' = [devPc EXCEPT ![d] = "idle"]
            /\ UNCHANGED <<devIsLoading, editSchedule>>
       ELSE /\ devToast' = [devToast EXCEPT ![d] = "Success"]
            /\ editSchedule' = [editSchedule EXCEPT ![d] = NoSchedule]
            /\ StartFetch(d)
    /\ devReply' = [devReply EXCEPT ![d] = NULL]
    /\ UNCHANGED <<schedTable, edWrites, devUser, devSchedules>>
    /\ UNCHANGED nonEditVars

\* The bin button of the i-th row (setDeleteScheduleId) and the confirm
\* button: handleDeleteSchedule up to the store's answer
handleDeleteSchedule(d, i, fault) ==
    /\ devUser[d] # NULL
    /\ devPc[d] = "idle"
    /\ ~devIsLoading[d]
    /\ i \in DOMAIN devSchedules[d]
    /\ edWrites < MaxWrites
    /\ LET id == devSchedules[d][i].id
           targets == {r \in DeleteTargets("schedules", devUser[d], schedTable, id) :
                          r.owner = devUser[d]}
       IN /\ schedTable' = IF fault # NULL THEN schedTable ELSE schedTable \ targets
          /\ devReply' = [devReply EXCEPT ![d] = IF fault # NULL THEN fault
                                                 ELSE WriteError(targets)]
    /\ edWrites' = edWrites + 1
    /\ devPc' = [devPc EXCEPT ![d] = "delete"]
    /\ UNCHANGED <<devUser, devSchedules, devIsLoading, editSchedule, devToast>>
    /\ UNCHANGED nonEditVars

\* handleDeleteSchedule from the answer on
DeleteScheduleDone(d) ==
    /\ devPc[d] = "delete"
    /\ IF devReply[d] # NULL
       THEN /\ devToast' = [devToast EXCEPT ![d] = "Error"]
            /\ devPc' = [devPc EXCEPT ![d] = "idle"]
            /\ UNCHANGED devIsLoading
       ELSE /\ devToast' = [devToast EXCEPT ![d] = "Success"]
            /\ StartFetch(d)
    /\ devReply' = [devReply EXCEPT ![d] = NULL]
    /\ UNCHANGED <<schedTable, edWrites, devUser, devSchedules, editSchedule>>
    /\ UNCHANGED nonEditVars

\* The store and the other components idle; no handler of ScheduleViewer.tsx
\* has run yet on either device.
InitEditCommon ==
    /\ InitStoreIdle /\ InitNotif /\ InitSched /\ InitDash /\ InitClockAcct
    /\ InitFeedback /\ InitPush
    /\ schedTable = {FirstSchedule}
    /\ edWrites = 1
    /\ devSchedules = [d \in Devices |-> <<>>]
    /\ devIsLoading = [d \in Devices |-> TRUE]
    /\ editSchedule = [d \in Devices |-> NoSchedule]
    /\ devPc = [d \in Devices |-> IF devUser[d] # NULL THEN "fetch" ELSE "idle"]
    /\ devReply = [d \in Devices |-> NULL]
    /\ devToast = [d \in Devices |-> NoToast]

\* Both devices are signed in as the owner.
InitEditSpec ==
    /\ devUser = [d \in Devices |-> "u1"]
    /\ InitEditCommon

\* The owner edits the row from both devices.
NextEdit ==
    \/ \E d \in Devices, fault \in Faults : FetchSchedulesDone(d, fault)
    \/ \E d \in Devices, i \in 1..MaxEditRows : OpenEdit(d, i)
    \/ \E d \in Devices, f \in EditFields :
          \E v \in FieldValues(f) : TypeEdit(d, f, v)
    \/ \E d \in Devices, fault \in Faults : handleEditSchedule(d, fault)
    \/ \E d \in Devices : EditScheduleDone(d)

SpecEdit == InitEditSpec /\ [][NextEdit]_vars

\* d1 is signed in as the owner; d2 is signed in as the owner or has no
\* session (the effect then calls nothing).
InitAddSpec ==
    /\ devUser \in {[d \in Devices |-> "u1"],
                    [d \in Devices |-> IF d = "d1" THEN "u1" ELSE NULL]}
    /\ InitEditCommon

\* The owner adds and deletes rows.
NextAdd ==
    \/ \E d \in Devices, fault \in Faults : FetchSchedulesDone(d, fault)
    \/ \E d \in Devices, form \in NewScheduleForms, fault \in Faults :
          handleAddScheduleEd(d, form, fault)
    \/ \E d \in Devices : AddScheduleDone(d)
    \/ \E d \in Devices, i \in 1..MaxEditRows, fault \in Faults :
          handleDeleteSchedule(d, i, fault)
    \/ \E d \in Devices : DeleteScheduleDone(d)

SpecAdd == InitAddSpec /\ [][NextAdd]_vars


\* C21: a create with a missing required field creates no row: every row of
\* the schedules table has a course, a time, a location and an instructor
\* (the add dialog refuses a form that leaves one of them empty).
C21_RequiredFieldsPresent ==
    \A r \in schedTable :
        r.course # "" /\ r.time # <<>> /\ r.location # "" /\ r.instructor # ""

\* C23: last write wins: when a device's update statement is executed and
\* the store does not fail, the reply carries no error and the six editable
\* fields of the row are exactly those of that device's dialog, whatever
\* another device wrote before from its own snapshot.
C23_LastWriteWins ==
    [][\A d \in Devices :
          (devPc[d] = "idle" /\ devPc'[d] = "edit" /\ devReply'[d] # "store_error") =>
              /\ devReply'[d] = NULL
              /\ \A r \in schedTable' :
                    r.id = editSchedule[d].id =>
                        \A f \in EditFields : r[f] = editSchedule[d][f]]_vars

\* Both devices edited the same row from snapshots that differ, both
\* statements were executed without error, and the row holds d2's values.
C23_Witness ==
    /\ devPc["d1"] = "edit" /\ devPc["d2"] = "edit"
    /\ devReply["d1"] = NULL /\ devReply["d2"] = NULL
    /\ editSchedule["d1"].id = editSchedule["d2"].id
    /\ \E f \in EditFields : editSchedule["d1"][f] # editSchedule["d2"][f]
    /\ \E r \in schedTable :
          /\ r.id = editSchedule["d2"].id
          /\ \A f \in EditFields : r[f] = editSchedule["d2"][f]


---------------------------------------------------------------------------
(* FeedbackSystem: the form, handleSubmitFeedback and fetchFeedback.       *)

MaxFeedback == 2

nonFbVars == <<storeVars, notifVars, schedVars, dashVars, now, acctVars, editVars,
               pushVars>>

\* The required inputs of the form (the priority stays at its default).
FormFields == {"feedback_type", "subject", "description"}

\* What the required inputs can be given: the select of the type and the two
\* text inputs, each empty or filled.
FormValues(f) == IF f = "feedback_type" THEN {"", "suggestion"} ELSE {"", "a"}

\* The stars of renderStarRating: [1, 2, 3, 4, 5].map(...)
Stars == 1..5

\* The rating is stored as it stands in the form.
StoredRatingAsIs(rating) == <<rating>>

\* rating: newFeedback.rating > 0 ? newFeedback.rating : null.  The INTEGER
\* column is written <<n>> for the integer n and <<>> for NULL.
StoredRating(rating) == IF rating > 0 THEN <<rating>> ELSE <<>>

\* .order('created_at', { ascending: false }) over the caller's rows
FetchFeedbackReply(uid) ==
    NewestFirst({r \in SelectRows("feedback", uid, fbTable) : r.owner = uid})

\* onValueChange / onChange of an input of the form:
\* setNewFeedback({ ...newFeedback, [f]: v })
SetFormField(f, v) ==
    /\ ~fbIsLoading
    /\ newFeedback[f] # v
    /\ newFeedback' = [newFeedback EXCEPT ![f] = v]
    /\ UNCHANGED <<fbTable, fbUser, feedback, fbIsLoading, fbPc, fbReply, fbToast>>
    /\ UNCHANGED nonFbVars

\* onClick of a star: setNewFeedback({ ...newFeedback, rating: star })
ClickStar(star) ==
    /\ ~fbIsLoading
    /\ newFeedback.rating # star
    /\ newFeedback' = [newFeedback EXCEPT !.rating = star]
    /\ UNCHANGED <<fbTable, fbUser, feedback, fbIsLoading, fbPc, fbReply, fbToast>>
    /\ UNCHANGED nonFbVars

\* handleSubmitFeedback up to the store's answer: no user -> toast; a
\* required field empty -> toast; else the insert
handleSubmitFeedback(fault) ==
    /\ ~fbIsLoading
    /\ fbPc = "idle"
    /\ IF fbUser = NULL
          \/ newFeedback.feedback_type = ""
          \/ newFeedback.subject = ""
          \/ newFeedback.description = ""
       THEN /\ fbToast' = "Error"
            /\ UNCHANGED <<fbTable, fbPc, fbReply>>
       ELSE /\ Cardinality(fbTable) < MaxFeedback
            /\ LET id == Cardinality(fbTable) + 1
                   r == [id |-> id, owner |-> fbUser,
                         feedback_type |-> newFeedback.feedback_type,
                         subject |-> newFeedback.subject,
                         description |-> newFeedback.description,
                         priority |-> newFeedback.priority,
                         rating |-> StoredRating(newFeedback.rating),
                         status |-> "under_review", created_at |-> id]
                   ok == fault = NULL /\ InsertCheck("feedback", fbUser, r)
               IN /\ fbTable' = IF ok THEN fbTable \cup {r} ELSE fbTable
                  /\ fbReply' = IF ok THEN NULL
                                ELSE IF fault # NULL THEN fault ELSE "rejected"
            /\ fbPc' = "submit"
            /\ UNCHANGED fbToast
    /\ UNCHANGED <<fbUser, newFeedback, feedback, fbIsLoading>>
    /\ UNCHANGED nonFbVars

\* handleSubmitFeedback from the answer on: error -> toast; else toast, the
\* form is reset and fetchFeedback() is called
SubmitFeedbackDone ==
    /\ fbPc = "submit"
    /\ IF fbReply # NULL
       THEN /\ fbToast' = "Error"
            /\ fbPc' = "idle"
            /\ UNCHANGED <<newFeedback, fbIsLoading>>
       ELSE /\ fbToast' = "Success"
            /\ newFeedback' = newFeedbackBlank
            /\ fbIsLoading' = TRUE
            /\ fbPc' = "fetch"
    /\ fbReply' = NULL
    /\ UNCHANGED <<fbTable, fbUser, feedback>>
    /\ UNCHANGED nonFbVars

\* fetchFeedback from the query on: error -> toast; else setFeedback(data);
\* finally setIsLoading(false)
FetchFeedbackDone(fault) ==
    /\ fbPc = "fetch"
    /\ IF fault # NULL
       THEN fbToast' = "Error" /\ UNCHANGED feedback
       ELSE feedback' = FetchFeedbackReply(fbUser) /\ UNCHANGED fbToast
    /\ fbIsLoading' = FALSE
    /\ fbPc' = "idle"
    /\ UNCHANGED <<fbTable, fbUser, newFeedback, fbReply>>
    /\ UNCHANGED nonFbVars

InitFeedbackSpec ==
    /\ InitStoreIdle /\ InitNotif /\ InitSched /\ InitDash /\ InitClockAcct
    /\ InitEdit /\ InitFeedback /\ InitPush

NextFeedback ==
    \/ \E f \in FormFields : \E v \in FormValues(f) : SetFormField(f, v)
    \/ \E star \in Stars : ClickStar(star)
    \/ \E fault \in Faults : handleSubmitFeedback(fault)
    \/ SubmitFeedbackDone
    \/ \E fault \in Faults : FetchFeedbackDone(fault)

SpecFeedback == InitFeedbackSpec /\ [][NextFeedback]_vars

\* C24: every feedback row created through submit carries the submitting
\* caller as user_id and status under_review, and its rating is NULL or an
\* integer from 1 to 5 (a form rating of 0 is stored as NULL).
C24_FeedbackRowShape ==
    \A r \in fbTable :
        /\ r.owner = fbUser
        /\ r.status = "under_review"
        /\ r.rating = <<>> \/ (Len(r.rating) = 1 /\ r.rating[1] \in 1..5)

\* One submit stored a form rating of 0 as NULL and another stored five stars.
C24_Witness ==
    /\ \E r \in fbTable : r.rating = <<>>
    /\ \E r \in fbTable : r.rating = <<5>>


\* C28: loading always ends: the loading indicator of a device is on only
\* while a load is in flight (whose last step, on every path, turns it off);
\* with no load in flight, signed in or not, the indicator is off.
C28_LoadingEnds ==
    \A d \in Devices : devPc[d] = "idle" => ~devIsLoading[d]


---------------------------------------------------------------------------
(* PushNotificationToggle: handleToggle around the hook's subscribe and    *)
(* unsubscribe.                                                            *)

MaxToggles == 4

nonPushVars == <<storeVars, notifVars, schedVars, dashVars, now, acctVars, editVars,
                 fbVars>>

\* A handler that starts a call whatever isProcessing holds.
GuardMissing(processing) == FALSE

\* if (isProcessing) return;
Guard(processing) == processing

\* The calls that have not settled yet.
InFlight == {i \in DOMAIN pushCalls : pushCalls[i].status = "pending"}

\* handleToggle up to its await: return at the guard, or
\* setIsProcessing(true) and start unsubscribe() or subscribe()
handleToggle ==
    /\ Len(pushCalls) + ignoredClicks < MaxToggles
    /\ IF Guard(isProcessing)
       THEN /\ ignoredClicks' = ignoredClicks + 1
            /\ UNCHANGED <<isProcessing, pushCalls>>
       ELSE /\ isProcessing' = TRUE
            /\ pushCalls' = Append(pushCalls,
                                   [kind |-> IF isSubscribed THEN "unsubscribe"
                                             ELSE "subscribe",
                                    status |-> "pending"])
            /\ UNCHANGED ignoredClicks
    /\ UNCHANGED isSubscribed
    /\ UNCHANGED nonPushVars

\* handleToggle from the await on: the call resolved, or it threw into the
\* catch; finally setIsProcessing(false).  The hook then reports the
\* subscription as it finds it.
ToggleSettled(i, outcome, subscribed) ==
    /\ i \in InFlight
    /\ pushCalls' = [pushCalls EXCEPT ![i].status = outcome]
    /\ isSubscribed' = subscribed
    /\ isProcessing' = FALSE
    /\ UNCHANGED ignoredClicks
    /\ UNCHANGED nonPushVars

InitPushSpec ==
    /\ InitStoreIdle /\ InitNotif /\ InitSched /\ InitDash /\ InitClockAcct
    /\ InitEdit /\ InitFeedback /\ InitPush

NextPush ==
    \/ handleToggle
    \/ \E i \in 1..MaxToggles, outcome \in {"resolved", "threw"}, subscribed \in BOOLEAN :
          ToggleSettled(i, outcome, subscribed)

SpecPush == InitPushSpec /\ [][NextPush]_vars

\* C29: at most one subscribe or unsubscribe call started by handleToggle is
\* in flight at any time, and once none is in flight, whether the last one
\* resolved or threw, isProcessing is false again.
C29_ToggleMutualExclusion ==
    /\ Cardinality(InFlight) <= 1
    /\ InFlight = {} => ~isProcessing

\* A toggle was ignored while a call was processing, that call threw, and
\* the next toggle started a new call.
C29_Witness ==
    /\ ignoredClicks > 0
    /\ Len(pushCalls) >= 2
    /\ pushCalls[1].status = "threw"
    /\ pushCalls[2].status = "pending"

====
